---- MODULE Spec2Model ----
(***************************************************************************)
(* Backtest simulation engine of the A-share quantitative platform:        *)
(* ChinaStockCommission, ChinaStockBroker, SimpleMovingAverageStrategy and *)
(* BacktestEngine (services/backtesting/engine.py), driven either by the   *)
(* API background task run_backtest_task (api/v1/endpoints/backtesting.py) *)
(* or by BacktestIntegrationService.run_strategy_backtest with a loaded    *)
(* user strategy.                                                          *)
(*                                                                         *)
(* Units.  Prices and money are integers in fen (0.01 yuan); sizes are     *)
(* shares.  Rates are kept as exact fractions, so the arithmetic of the    *)
(* model is the real-number arithmetic of the code (float rounding is not  *)
(* modelled).  A date is the index of the bar in the input sequence.       *)
(*                                                                         *)
(* Framework.  The classes of engine.py extend backtrader classes.  The    *)
(* model takes the framework as the source uses it: the cerebro loop       *)
(* advances the data feed, calls the broker's next(), delivers order and   *)
(* trade notifications, then calls the strategy's next() (prenext() while  *)
(* the indicators have not reached their minimum period); an order handed  *)
(* to the base broker is checked against cash on the following bar and a   *)
(* market order executes at that bar's open.                               *)
(***************************************************************************)
EXTENDS Integers, Sequences, FiniteSets, TLC

(* ------------------------------ bounds -------------------------------- *)
\* longest input bar sequence of a run started through the API
MaxBars == 5
\* longest input bar sequence of a run of a loaded strategy
MaxServiceBars == 4
\* most orders a loaded (user) strategy submits over one run
MaxOrders == 3
\* most candidate values a grid lists for one parameter
MaxCandidates == 2
\* most combinations of a grid
MaxCombinations == 4
\* longest input bar sequence of a portfolio run
MaxMultiBars == 4
\* most strategy entries of a portfolio run
MaxStrategies == 2
\* most lots of an execution whose commission is computed
MaxQuoteLots == 30

(* ------------------------- program constants -------------------------- *)
\* commission rate 0.0003, as parts per 10000
CommissionPer10000 == 3
\* stamp duty 0.001, as parts per 10000 (sell side only)
StampDutyPer10000 == 10
\* minimum commission: 5 yuan, in fen
MinCommission == 500
\* price_limit 0.10, as a percentage
PriceLimitPct == 10
\* one board lot: 100 shares
Lot == 100
\* SimpleMovingAverageStrategy uses 90% of the cash for a buy
CashUsePct == 90

(* --------------------------- input domains ---------------------------- *)
\* "no value" for an optional price (Python None)
NoPrice == 0
\* float('-inf'), below every score
NegInf == -1000
\* open/close prices of the input bars, in fen (10.00 and 13.00 yuan)
Prices == {1000, 1300}
\* limit prices a loaded strategy may ask for (11.50 yuan: above the upper
\* limit after a close of 10.00, below the lower limit after a close of 13.00)
LimitPrices == {1150}
\* initial_cash of a run, in fen (1500 yuan)
InitialCashChoices == {150000}
\* (fast_period, slow_period) of SimpleMovingAverageStrategy
PeriodChoices == {<<1, 2>>}
\* a bar: high and low are the extremes of open and close
BarOf(o, c) == [open |-> o, close |-> c,
                high |-> IF o > c THEN o ELSE c,
                low |-> IF o < c THEN o ELSE c]
Bars == {BarOf(o, c) : o \in Prices, c \in Prices}
\* the bars of a portfolio run: open and close equal
FlatBars == {BarOf(p, p) : p \in Prices}
NoBar == [open |-> NoPrice, close |-> NoPrice, high |-> NoPrice, low |-> NoPrice]

Max(a, b) == IF a >= b THEN a ELSE b
Abs(x) == IF x < 0 THEN -x ELSE x

\* variant: the commission without its minimum
getcommission_nomin(size, price) ==
    LET value == Abs(size) * price
        commission == (value * CommissionPer10000) \div 10000
    IN  IF size < 0 THEN commission + (value * StampDutyPer10000) \div 10000
        ELSE commission

\* variant: stamp duty charged on both sides
getcommission_bothsides(size, price) ==
    LET value == Abs(size) * price
    IN  Max((value * CommissionPer10000) \div 10000, MinCommission)
        + (value * StampDutyPer10000) \div 10000

(* ------------------------- ChinaStockCommission ----------------------- *)
\* _getcommission(size, price): max(value*rate, min) plus stamp duty when selling
getcommission(size, price) ==
    LET value == Abs(size) * price
        commission == Max((value * CommissionPer10000) \div 10000, MinCommission)
    IN  IF size < 0
        THEN commission + (value * StampDutyPer10000) \div 10000
        ELSE commission

(* ------------------------------- state -------------------------------- *)
VARIABLES
    task_status,     \* backtest_tasks[task_id]["status"]; "none": no such task
    status_log,      \* every status written to the task record, in order
    error_message,   \* the message of the exception that ended the run (<<>>: none)
    run_result,      \* what engine.run() returned to its caller ("none": nothing)
    pc,              \* where the run stands
    config,          \* the run's configuration
    kline_len,       \* rows of the fetched K-line frame (-1: not fetched)
    bar,             \* the bar the data feed points at (data.*[0])
    len,             \* bars delivered so far: len(data)
    closes,          \* data.close as the strategy's indicators read it
    cash,            \* broker cash
    position,        \* broker position size of the instrument
    value,           \* broker portfolio value, as getvalue() returns it
    previous_close,  \* ChinaStockBroker.previous_close[name]
    buy_records,     \* ChinaStockBroker.buy_records[name]: date -> size
    orders,          \* the base broker's submitted and pending orders
    notifs,          \* order notifications not yet delivered
    tradespending,   \* trade notifications not yet delivered
    last_ref,        \* reference number of the last order created
    self_order,      \* SimpleMovingAverageStrategy.order (0: None)
    trade_list,      \* SimpleMovingAverageStrategy.trade_list
    equity_curve,    \* SimpleMovingAverageStrategy.equity_curve
    positions_log,   \* history: position at the time of each equity point
    fills,           \* history: executions on the current bar
    bought_today,    \* history: shares bought (filled) on the current bar
    submits,         \* history: orders the strategy created on the current bar
    only_buys,       \* history: no sell order has been created in this run
    prior_close,     \* history: the close of the bar before the current one,
                     \* kept until the strategy's limit orders are checked
    strategies,      \* run_multi_strategy_backtest: the strategy entries
    strategy_results,\* run_multi_strategy_backtest: the sub-runs' results so far
    kline,           \* run_multi_strategy_backtest: the frame df, as delivered
    combined,        \* what combine_strategy_results returned (<<>>: nothing)
    param_grid,      \* grid_search: <<name, candidate values>> in key order
    metric,          \* grid_search: the name of the target metric
    param_combinations, \* grid_search: list(product(*param_values))
    idx,             \* grid_search: combinations gone through
    results,         \* ParameterOptimizer.results
    best_result,     \* grid_search: best_result (<<>>: None)
    best_score,      \* grid_search: best_score
    attempts,        \* history: the backtests grid_search ran, in order
    sweep_pc,        \* where grid_search stands
    quote            \* the last call of _getcommission and its value (<<>>: none)

task_vars == <<task_status, status_log, error_message, run_result>>
data_vars == <<kline_len, bar, len, closes>>
broker_vars == <<cash, position, value, previous_close, buy_records, orders,
                 notifs, tradespending, last_ref>>
strategy_vars == <<self_order, trade_list, equity_curve, positions_log>>
history_vars == <<fills, bought_today, submits, only_buys, prior_close>>
multi_vars == <<strategies, strategy_results, kline, combined>>
sweep_vars == <<param_grid, metric, param_combinations, idx, results,
                best_result, best_score, attempts, sweep_pc>>
calc_vars == <<quote>>
batch_vars == <<multi_vars, sweep_vars, calc_vars>>
vars == <<task_vars, pc, config, data_vars, broker_vars, strategy_vars,
          history_vars, batch_vars>>

\* date of the current bar: its index in the input sequence
CurrentDate == len

(* --------------------------- ChinaStockBroker ------------------------- *)
\* buy_records[name].get(date, 0)
TodayBuy(records, date) == IF date \in DOMAIN records THEN records[date] ELSE 0

\* the quantity bought on all dates of the ledger
RECURSIVE BoughtUpTo(_, _)
BoughtUpTo(records, date) ==
    IF date < 0 THEN 0
    ELSE TodayBuy(records, date) + BoughtUpTo(records, date - 1)

\* variant: the T+1 check counts the buys of every date, a running counter
check_t1_restriction_running(size) ==
    IF ~config.enable_t1 \/ size > 0
    THEN <<TRUE, size>>
    ELSE LET available == position - BoughtUpTo(buy_records, CurrentDate)
         IN  IF Abs(size) > available
             THEN <<FALSE, available>>
             ELSE <<TRUE, size>>

\* variant: the T+1 check measures a sell against the whole position
check_t1_restriction_whole(size) ==
    IF ~config.enable_t1 \/ size > 0
    THEN <<TRUE, size>>
    ELSE IF Abs(size) > position THEN <<FALSE, position>> ELSE <<TRUE, size>>

\* _check_t1_restriction(data, size): <<is_allowed, available_size>>
check_t1_restriction(size) ==
    IF ~config.enable_t1 \/ size > 0
    THEN <<TRUE, size>>
    ELSE LET total_position == position
             today_buy == TodayBuy(buy_records, CurrentDate)
             available == total_position - today_buy
         IN  IF Abs(size) > available
             THEN <<FALSE, available>>
             ELSE <<TRUE, size>>

\* variant: a price outside the band is moved to the previous close itself
check_price_limit_toclose(price) ==
    IF ~config.enable_price_limit \/ previous_close = NoPrice
    THEN <<TRUE, price>>
    ELSE IF price > (previous_close * (100 + PriceLimitPct)) \div 100
            \/ price < (previous_close * (100 - PriceLimitPct)) \div 100
         THEN <<FALSE, previous_close>>
         ELSE <<TRUE, price>>

\* _check_price_limit(data, price): <<is_allowed, adjusted_price>>
check_price_limit(price) ==
    IF ~config.enable_price_limit
    THEN <<TRUE, price>>
    ELSE LET prev_close == previous_close
         IN  IF prev_close = NoPrice
             THEN <<TRUE, price>>
             ELSE LET upper_limit == (prev_close * (100 + PriceLimitPct)) \div 100
                      lower_limit == (prev_close * (100 - PriceLimitPct)) \div 100
                  IN  IF price > upper_limit THEN <<FALSE, upper_limit>>
                      ELSE IF price < lower_limit THEN <<FALSE, lower_limit>>
                      ELSE <<TRUE, price>>

\* the order object strategy.buy()/sell() creates: size is negative for a sell,
\* pclose is the close of the bar it is created on (the reference price of a
\* market order)
NewOrder(ref, size, exectype, price) ==
    [ref |-> ref, size |-> size, exectype |-> exectype, price |-> price,
     pclose |-> bar.close, status |-> "Created", bar |-> CurrentDate]

\* submit(order): the order as it leaves submit. A sell that fails the T+1
\* check is rejected and returned without reaching the base broker; an order
\* that is not a market order is repriced to the limit it breaks.
submit(order) ==
    LET t1 == IF order.size > 0 THEN <<TRUE, order.size>>
              ELSE check_t1_restriction(order.size)
    IN  IF ~t1[1]
        THEN [order EXCEPT !.status = "Rejected"]
        ELSE LET pl == IF order.exectype # "Market"
                       THEN check_price_limit(order.price)
                       ELSE <<TRUE, order.price>>
                 priced == IF ~pl[1] THEN [order EXCEPT !.price = pl[2]] ELSE order
             IN  [priced EXCEPT !.status = "Submitted"]

\* notify_trade(trade): the ledger after the broker is told of a trade
notify_trade(records, trade, date) ==
    IF trade.isopen /\ trade.size > 0
    THEN (date :> (TodayBuy(records, date) + trade.size)) @@ records
    ELSE records

(* ----------------- base broker (behind super().submit/next) ----------- *)
\* Position.update(size, price): the part of an execution that opens and the
\* part that closes, for a position of psize
Split(psize, size) ==
    LET new == psize + size
    IN  IF new = 0 THEN [opened |-> 0, closed |-> size]
        ELSE IF psize = 0 THEN [opened |-> size, closed |-> 0]
        ELSE IF psize > 0
             THEN IF size > 0 THEN [opened |-> size, closed |-> 0]
                  ELSE IF new > 0 THEN [opened |-> 0, closed |-> size]
                  ELSE [opened |-> new, closed |-> -psize]
             ELSE IF size < 0 THEN [opened |-> size, closed |-> 0]
                  ELSE IF new < 0 THEN [opened |-> 0, closed |-> size]
                  ELSE [opened |-> new, closed |-> -psize]

\* cash after the closing part of an execution: the proceeds (or the cost of
\* covering) and the commission of that part
CashAfterClose(c, closed, price) ==
    IF closed = 0 THEN c ELSE c - closed * price - getcommission(closed, price)

\* cash after the opening part: the cost (or the short proceeds) and commission
CashAfterOpen(c, opened, price) ==
    IF opened = 0 THEN c ELSE c - opened * price - getcommission(opened, price)

\* the price an order is checked against before it is accepted
CreatedPrice(order) ==
    IF order.exectype = "Market" THEN order.pclose ELSE order.price

Notice(order, status, size, price, comm) ==
    [ref |-> order.ref, status |-> status, isbuy |-> order.size > 0,
     size |-> size, price |-> price, comm |-> comm]

\* check_submitted(): every submitted order is pseudo-executed, in order, on a
\* running cash figure and a copy of the position; it is accepted if the cash
\* left is not negative and ends in Margin otherwise
RECURSIVE CheckSubmitted(_, _, _, _)
CheckSubmitted(queue, simcash, simpos, acc) ==
    IF queue = <<>> THEN acc
    ELSE LET order == Head(queue)
         IN  IF order.status # "Submitted"
             THEN CheckSubmitted(Tail(queue), simcash, simpos,
                      [acc EXCEPT !.pending = Append(@, order)])
             ELSE LET price == CreatedPrice(order)
                      sp == Split(simpos, order.size)
                      c == CashAfterOpen(CashAfterClose(simcash, sp.closed, price),
                                         sp.opened, price)
                  IN  IF c >= 0
                      THEN CheckSubmitted(Tail(queue), c, simpos + order.size,
                               [acc EXCEPT
                                  !.pending = Append(@, [order EXCEPT !.status = "Accepted"]),
                                  !.notifs = Append(@, Notice(order, "Accepted", 0, 0, 0))])
                      ELSE CheckSubmitted(Tail(queue), c, simpos + order.size,
                               [acc EXCEPT
                                  !.notifs = Append(@, Notice(order, "Margin", 0, 0, 0))])

\* the price a pending order executes at on the current bar; NoPrice: it does
\* not execute on this bar
ExecPrice(order, b) ==
    IF order.exectype = "Market" THEN b.open
    ELSE LET plimit == order.price
         IN  IF order.size > 0
             THEN IF plimit >= b.open THEN b.open
                  ELSE IF plimit >= b.low THEN plimit
                  ELSE NoPrice
             ELSE IF plimit <= b.open THEN b.open
                  ELSE IF plimit <= b.high THEN plimit
                  ELSE NoPrice

\* the trade notifications an execution raises: a trade closes when the
\* position returns to zero and opens when it leaves zero
TradeEvents(psize, sp, opened) ==
    (IF sp.closed # 0 /\ psize + sp.closed = 0
     THEN <<[isopen |-> FALSE, size |-> 0]>> ELSE <<>>)
    \o
    (IF opened # 0 /\ psize + sp.closed = 0
     THEN <<[isopen |-> TRUE, size |-> opened]>> ELSE <<>>)

\* _execute(order, price): the closing part always executes; the opening part
\* executes only if the cash left after it is not negative, otherwise the
\* order ends in Margin
Execute(st, order, price, date) ==
    LET sp == Split(st.position, order.size)
        c1 == CashAfterClose(st.cash, sp.closed, price)
        c2 == CashAfterOpen(c1, sp.opened, price)
        opened == IF c2 < 0 THEN 0 ELSE sp.opened
        newcash == IF c2 < 0 THEN c1 ELSE c2
        execsize == sp.closed + opened
        comm == (IF sp.closed # 0 THEN getcommission(sp.closed, price) ELSE 0)
              + (IF opened # 0 THEN getcommission(opened, price) ELSE 0)
        done == IF execsize = 0 THEN <<>>
                ELSE <<Notice(order, IF execsize = order.size THEN "Completed" ELSE "Partial",
                              execsize, price, comm)>>
        margin == IF sp.opened # 0 /\ opened = 0
                  THEN <<Notice(order, "Margin", 0, 0, 0)>> ELSE <<>>
        fill == IF execsize = 0 THEN <<>>
                ELSE <<[ref |-> order.ref, date |-> date, size |-> execsize,
                        price |-> price, comm |-> comm, exectype |-> order.exectype,
                        ordered |-> order.size, order_bar |-> order.bar,
                        order_status |-> order.status,
                        cash_before |-> st.cash, cash_after |-> newcash,
                        position_before |-> st.position,
                        bought_before |-> st.bought,
                        prev_close |-> previous_close]>>
    IN  [st EXCEPT !.cash = newcash,
                   !.position = @ + execsize,
                   !.notifs = @ \o done \o margin,
                   !.trades = @ \o (IF execsize = 0 THEN <<>>
                                    ELSE TradeEvents(st.position, sp, opened)),
                   !.fills = @ \o fill,
                   !.bought = @ + (IF execsize > 0 THEN execsize ELSE 0)]

\* one pass over the pending queue: an order that executes leaves the queue,
\* one that does not stays for the next bar
RECURSIVE RunPending(_, _, _, _)
RunPending(queue, st, b, date) ==
    IF queue = <<>> THEN st
    ELSE LET order == Head(queue)
             price == ExecPrice(order, b)
         IN  IF price = NoPrice
             THEN RunPending(Tail(queue), [st EXCEPT !.pending = Append(@, order)], b, date)
             ELSE RunPending(Tail(queue), Execute(st, order, price, date), b, date)

\* _get_value(): cash plus the position at the current close
GetValue(c, psize, close) == c + psize * close

(* -------------------- SimpleMovingAverageStrategy --------------------- *)
RECURSIVE SumRange(_, _, _)
SumRange(seq, from, to) ==
    IF from > to THEN 0 ELSE seq[from] + SumRange(seq, from + 1, to)

\* sign-preserving difference fast_ma - slow_ma at bar k (k >= both periods):
\* the two averages brought to the common denominator fast_period*slow_period
MaDiff(seq, k) ==
    SumRange(seq, k - config.fast_period + 1, k) * config.slow_period
    - SumRange(seq, k - config.slow_period + 1, k) * config.fast_period

\* first bar at which both moving averages have a value
MaPeriod == Max(config.fast_period, config.slow_period)

\* the last non-zero difference up to bar k (the difference itself on the
\* first bar that has one)
RECURSIVE NonZeroDifference(_, _)
NonZeroDifference(seq, k) ==
    IF k <= MaPeriod THEN MaDiff(seq, k)
    ELSE IF MaDiff(seq, k) # 0 THEN MaDiff(seq, k)
    ELSE NonZeroDifference(seq, k - 1)

\* bt.indicators.CrossOver(fast_ma, slow_ma) at bar k > MaPeriod:
\* 1 on an upward cross, -1 on a downward cross, 0 otherwise
CrossOver(seq, k) ==
    IF NonZeroDifference(seq, k - 1) < 0 /\ MaDiff(seq, k) > 0 THEN 1
    ELSE IF NonZeroDifference(seq, k - 1) > 0 /\ MaDiff(seq, k) < 0 THEN -1
    ELSE 0

\* the first bar on which next() is called: the cross-over needs the
\* previous bar's difference
MinPeriod == MaPeriod + 1

\* size of a buy: 90% of the cash in whole lots at the current close
BuySize(c, close) == ((c * CashUsePct) \div (100 * close * Lot)) * Lot

\* variant: buy whenever the fast average is not below the slow one
SmaDecision_level ==
    IF self_order # 0 THEN 0
    ELSE IF position = 0
         THEN IF MaDiff(closes, CurrentDate) >= 0 /\ BuySize(cash, bar.close) >= Lot
              THEN BuySize(cash, bar.close) ELSE 0
         ELSE IF CrossOver(closes, CurrentDate) < 0 THEN -position ELSE 0

\* the order SimpleMovingAverageStrategy.next() decides on: size 0 is none
SmaDecision ==
    IF self_order # 0 THEN 0
    ELSE IF position = 0
         THEN IF CrossOver(closes, CurrentDate) > 0 /\ BuySize(cash, bar.close) >= Lot
              THEN BuySize(cash, bar.close) ELSE 0
         ELSE IF CrossOver(closes, CurrentDate) < 0 THEN -position ELSE 0

\* variant: the point records the cash as its total value
EquityPoint_cashtwice == [date |-> CurrentDate, value |-> cash, cash |-> cash]

\* the record next() appends to equity_curve
EquityPoint == [date |-> CurrentDate, value |-> value, cash |-> cash]

\* notify_order(order): trade_list and self.order after one notification
NotifyOrderTrades(list, n, date) ==
    IF n.status = "Completed"
    THEN Append(list, [date |-> date, action |-> IF n.isbuy THEN "buy" ELSE "sell",
                       price |-> n.price, size |-> n.size, commission |-> n.comm])
    ELSE list

NotifyOrderMarker(marker, n) ==
    IF n.status \in {"Submitted", "Accepted"} THEN marker ELSE 0

RECURSIVE NotifyAll(_, _, _, _)
NotifyAll(queue, list, marker, date) ==
    IF queue = <<>> THEN [trade_list |-> list, self_order |-> marker]
    ELSE IF Head(queue).status \in {"Submitted", "Accepted"}
         THEN NotifyAll(Tail(queue), list, marker, date)
         ELSE NotifyAll(Tail(queue), NotifyOrderTrades(list, Head(queue), date),
                        NotifyOrderMarker(marker, Head(queue)), date)

RECURSIVE NotifyTrades(_, _, _)
NotifyTrades(queue, records, date) ==
    IF queue = <<>> THEN records
    ELSE NotifyTrades(Tail(queue), notify_trade(records, Head(queue), date), date)

(* ------------------------------ the run ------------------------------- *)
\* configurations of a run started through POST /backtesting/run: the task
\* always sets up the engine with T+1 and price limits on
TaskConfigs ==
    {[driver |-> "task", strategy_type |-> t, enable_t1 |-> TRUE,
      enable_price_limit |-> TRUE, fast_period |-> p[1], slow_period |-> p[2],
      initial_cash |-> c] :
        t \in {"simple_ma", "custom"}, p \in PeriodChoices, c \in InitialCashChoices}

\* configurations of a run of a loaded strategy: backtest_params may switch
\* either rule off
ServiceConfigs ==
    {[driver |-> "service", strategy_type |-> "loaded", enable_t1 |-> t1,
      enable_price_limit |-> pl, fast_period |-> 0, slow_period |-> 0,
      initial_cash |-> c] :
        t1 \in BOOLEAN, pl \in BOOLEAN, c \in InitialCashChoices}

NoConfig == [driver |-> "none", strategy_type |-> "none", enable_t1 |-> TRUE,
             enable_price_limit |-> TRUE, fast_period |-> 0, slow_period |-> 0,
             initial_cash |-> 0]

Init ==
    /\ task_status = "none" /\ status_log = <<>>
    /\ error_message = <<>> /\ run_result = "none"
    /\ pc = "idle" /\ config = NoConfig
    /\ kline_len = -1 /\ bar = NoBar /\ len = 0 /\ closes = <<>>
    /\ cash = 0 /\ position = 0 /\ value = 0
    /\ previous_close = NoPrice /\ buy_records = <<>>
    /\ orders = <<>> /\ notifs = <<>> /\ tradespending = <<>> /\ last_ref = 0
    /\ self_order = 0 /\ trade_list = <<>> /\ equity_curve = <<>>
    /\ positions_log = <<>>
    /\ fills = <<>> /\ bought_today = 0 /\ submits = <<>> /\ only_buys = TRUE
    /\ prior_close = NoPrice
    /\ strategies = <<>> /\ strategy_results = <<>> /\ kline = <<>>
    /\ combined = <<>>
    /\ param_grid = <<>> /\ metric = "none" /\ param_combinations = <<>>
    /\ idx = 0 /\ results = <<>> /\ best_result = <<>> /\ best_score = NegInf
    /\ attempts = <<>> /\ sweep_pc = "idle"
    /\ quote = <<>>

\* variant: one broker serves every run, keeping its position, ledger and
\* previous close
EngineSetup_shared(cfg) ==
    /\ cash' = cfg.initial_cash
    /\ value' = cfg.initial_cash + position * previous_close
    /\ UNCHANGED <<position, previous_close, buy_records>>
    /\ orders' = <<>> /\ notifs' = <<>> /\ tradespending' = <<>> /\ last_ref' = 0
    /\ self_order' = 0 /\ trade_list' = <<>> /\ equity_curve' = <<>>
    /\ positions_log' = <<>>

\* BacktestEngine.setup/add_data/add_strategy: a fresh broker holding the
\* initial cash, no position, empty ledger and no previous close
EngineSetup(cfg) ==
    /\ cash' = cfg.initial_cash /\ value' = cfg.initial_cash /\ position' = 0
    /\ previous_close' = NoPrice /\ buy_records' = <<>>
    /\ orders' = <<>> /\ notifs' = <<>> /\ tradespending' = <<>> /\ last_ref' = 0
    /\ self_order' = 0 /\ trade_list' = <<>> /\ equity_curve' = <<>>
    /\ positions_log' = <<>>

\* run_backtest: the task record is created PENDING and the background task
\* is queued
run_backtest ==
    /\ UNCHANGED batch_vars
    /\ pc = "idle"
    /\ \E cfg \in TaskConfigs : config' = cfg
    /\ task_status' = "pending"
    /\ status_log' = <<"pending">>
    /\ UNCHANGED <<error_message, run_result>>
    /\ pc' = "queued"
    /\ UNCHANGED <<data_vars, broker_vars, strategy_vars, history_vars>>

\* a write of backtest_tasks[task_id]["status"]: KeyError if the task is gone
StatusAfterWrite(status) == IF task_status = "none" THEN "none" ELSE status
LogAfterWrite(status) ==
    IF task_status = "none" THEN status_log ELSE Append(status_log, status)

\* the except branch of run_backtest_task: the status becomes FAILED; if the
\* task record is gone the write itself raises and the task dies
FailTask(message) ==
    /\ task_status' = StatusAfterWrite("failed")
    /\ status_log' = LogAfterWrite("failed")
    /\ error_message' = IF task_status = "none" THEN error_message ELSE <<message>>
    /\ UNCHANGED run_result
    /\ pc' = IF task_status = "none" THEN "crashed" ELSE "done"

\* run_backtest_task up to the await of the K-line fetch: status RUNNING
task_start ==
    /\ UNCHANGED batch_vars
    /\ pc = "queued"
    /\ IF task_status = "none"
       THEN FailTask("KeyError")
       ELSE /\ task_status' = "running"
            /\ status_log' = Append(status_log, "running")
            /\ UNCHANGED <<error_message, run_result>>
            /\ pc' = "fetching"
    /\ UNCHANGED <<config, data_vars, broker_vars, strategy_vars, history_vars>>

\* variant: the empty frame is not detected
KlineEmpty_never(n) == FALSE

\* the frame is empty
KlineEmpty(n) == n = 0

\* run_backtest_task from the fetched frame to engine.run(): an empty frame,
\* a failed fetch or an unsupported strategy type raises
task_fetched ==
    /\ UNCHANGED batch_vars
    /\ pc = "fetching"
    /\ \E ok \in BOOLEAN, n \in 0..MaxBars :
        IF ~ok
        THEN FailTask("fetch error") /\ UNCHANGED <<data_vars, broker_vars, strategy_vars>>
        ELSE /\ kline_len' = n /\ UNCHANGED <<bar, len, closes>>
             /\ IF KlineEmpty(n)
                THEN FailTask("no K-line data") /\ UNCHANGED <<broker_vars, strategy_vars>>
                ELSE /\ EngineSetup(config)
                     /\ IF config.strategy_type # "simple_ma"
                        THEN FailTask("unsupported strategy type")
                        ELSE pc' = "feed" /\ UNCHANGED task_vars
    /\ UNCHANGED <<config, history_vars>>

\* run_strategy_backtest up to engine.run(): the strategy class is loaded, the
\* frame fetched (an empty one raises before the engine exists) and the engine
\* set up
run_strategy_backtest ==
    /\ UNCHANGED batch_vars
    /\ pc = "idle"
    /\ \E cfg \in ServiceConfigs, n \in 0..MaxServiceBars :
        /\ config' = cfg
        /\ kline_len' = n
        /\ IF KlineEmpty(n)
           THEN /\ pc' = "done" /\ UNCHANGED <<broker_vars, strategy_vars>>
                /\ error_message' = <<"fetching the data failed", "no K-line data">>
           ELSE pc' = "feed" /\ EngineSetup(cfg) /\ UNCHANGED error_message
    /\ UNCHANGED <<task_status, status_log, run_result, bar, len, closes,
                   history_vars>>

\* the rows the feed may deliver next: every sub-run of a portfolio run
\* reads a copy of the same frame
FeedBars ==
    IF config.driver = "multi"
    THEN IF len < Len(kline) THEN {kline[len + 1]} ELSE FlatBars
    ELSE Bars

\* the cerebro loop moves the data feed to the next bar
data_advance ==
    /\ UNCHANGED <<strategies, strategy_results, combined, sweep_vars, calc_vars>>
    /\ pc = "feed"
    /\ len < kline_len
    /\ \E b \in FeedBars :
        /\ bar' = b
        /\ closes' = IF config.strategy_type = "simple_ma"
                     THEN Append(closes, b.close) ELSE closes
        /\ kline' = IF config.driver = "multi" /\ len = Len(kline)
                    THEN Append(kline, b) ELSE kline
    /\ len' = len + 1
    /\ fills' = <<>> /\ bought_today' = 0 /\ submits' = <<>>
    /\ prior_close' = IF config.strategy_type = "loaded" /\ config.enable_price_limit
                      THEN bar.close ELSE NoPrice
    /\ pc' = "broker"
    /\ UNCHANGED <<task_vars, config, kline_len, broker_vars, strategy_vars,
                   only_buys>>

\* ChinaStockBroker.next(): the base broker checks the submitted orders,
\* executes the pending ones on the current bar and revalues the account;
\* then the previous close becomes the current bar's close
broker_next ==
    /\ UNCHANGED batch_vars
    /\ pc = "broker"
    /\ LET checked == CheckSubmitted(orders, cash, position,
                                     [pending |-> <<>>, notifs |-> notifs])
           st == RunPending(checked.pending,
                            [cash |-> cash, position |-> position, pending |-> <<>>,
                             notifs |-> checked.notifs, trades |-> <<>>,
                             fills |-> <<>>, bought |-> 0],
                            bar, CurrentDate)
       IN  /\ cash' = st.cash
           /\ position' = st.position
           /\ orders' = st.pending
           /\ notifs' = st.notifs
           /\ tradespending' = st.trades
           /\ fills' = st.fills
           /\ bought_today' = st.bought
           /\ value' = GetValue(st.cash, st.position, bar.close)
    /\ previous_close' = bar.close
    /\ pc' = "notify"
    /\ UNCHANGED <<task_vars, config, data_vars, buy_records, last_ref,
                   strategy_vars, submits, only_buys, prior_close>>

\* delivery of the bar's notifications: trades to notify_trade, orders to the
\* strategy's notify_order
notify ==
    /\ UNCHANGED batch_vars
    /\ pc = "notify"
    /\ buy_records' = NotifyTrades(tradespending, buy_records, CurrentDate)
    /\ tradespending' = <<>>
    /\ notifs' = <<>>
    /\ IF config.strategy_type = "simple_ma"
       THEN LET r == NotifyAll(notifs, trade_list, self_order, CurrentDate)
            IN  trade_list' = r.trade_list /\ self_order' = r.self_order
       ELSE UNCHANGED <<trade_list, self_order>>
    /\ pc' = "next"
    /\ UNCHANGED <<task_vars, config, data_vars, cash, position, value,
                   previous_close, orders, last_ref, equity_curve,
                   positions_log, history_vars>>

\* what the latest strategy call observed of one submit
SubmitRecord(created, left) ==
    [ref |-> left.ref, size |-> left.size, exectype |-> left.exectype,
     requested |-> created.price, price |-> left.price, status |-> left.status,
     bar |-> left.bar, position_before |-> position,
     today_buy |-> TodayBuy(buy_records, CurrentDate),
     prev_close |-> previous_close, prior_close |-> prior_close]

\* variant: submit falls through to the base broker after rejecting
SentToBroker_always(left) == <<left>>

\* variant: submit raises when it rejects
SubmitRaises_onreject(left) == left.status = "Rejected"

\* whether submit raised instead of returning the order: it has no raise
\* statement, a rejection is order.reject() and return
SubmitRaises(left) == FALSE

\* an exception leaving a strategy hook leaves cerebro.run() and engine.run(),
\* neither of which catches; the caller's except branch receives it:
\* run_backtest_task writes FAILED and str(e), run_strategy_backtest raises a
\* ValueError whose message ends with str(e)
Propagate(message) ==
    IF config.driver = "task"
    THEN FailTask(message)
    ELSE /\ pc' = "done"
         /\ error_message' = <<"running the backtest failed", message>>
         /\ UNCHANGED <<task_status, status_log, run_result>>

\* the end of submit: a rejected order is returned to the caller, any other
\* goes on to the base broker (super().submit)
SentToBroker(left) == IF left.status = "Rejected" THEN <<>> ELSE <<left>>

\* the orders of a sequence that reached the base broker
RECURSIVE Taken(_)
Taken(seq) ==
    IF seq = <<>> THEN <<>>
    ELSE SentToBroker(Head(seq)) \o Taken(Tail(seq))

RECURSIVE SubmittedNotices(_)
SubmittedNotices(seq) ==
    IF seq = <<>> THEN <<>>
    ELSE <<Notice(Head(seq), "Submitted", 0, 0, 0)>> \o SubmittedNotices(Tail(seq))

\* prenext(): the indicators have no value yet; the strategy does nothing
prenext ==
    /\ UNCHANGED batch_vars
    /\ pc = "next"
    /\ config.strategy_type = "simple_ma"
    /\ CurrentDate < MinPeriod
    /\ pc' = "feed"
    /\ UNCHANGED <<task_vars, config, data_vars, broker_vars, strategy_vars,
                   history_vars>>

\* SimpleMovingAverageStrategy.next(): record the equity point, then buy on an
\* upward cross when flat, sell the whole position on a downward cross
sma_next ==
    /\ UNCHANGED batch_vars
    /\ pc = "next"
    /\ config.strategy_type = "simple_ma"
    /\ CurrentDate >= MinPeriod
    /\ equity_curve' = Append(equity_curve, EquityPoint)
    /\ positions_log' = Append(positions_log, position)
    /\ LET size == SmaDecision
           created == NewOrder(last_ref + 1, size, "Market", NoPrice)
           left == submit(created)
       IN  /\ IF size = 0
              THEN /\ UNCHANGED <<orders, notifs, last_ref, self_order>>
                   /\ UNCHANGED <<submits, only_buys>>
              ELSE /\ last_ref' = last_ref + 1
                   /\ self_order' = left.ref
                   /\ orders' = orders \o Taken(<<left>>)
                   /\ notifs' = notifs \o SubmittedNotices(Taken(<<left>>))
                   /\ submits' = <<SubmitRecord(created, left)>>
                   /\ only_buys' = (only_buys /\ size > 0)
           /\ IF size # 0 /\ SubmitRaises(left)
              THEN Propagate("submit error")
              ELSE pc' = "feed" /\ UNCHANGED task_vars
    /\ UNCHANGED <<config, data_vars, cash, position, value,
                   previous_close, buy_records, tradespending, trade_list,
                   fills, bought_today, prior_close>>

\* the orders a loaded strategy may ask for in one call: one lot bought or
\* sold, at the market or at a limit price
OrderKinds ==
    {<<sz, "Market", NoPrice>> : sz \in {Lot, -Lot}}
    \cup {<<sz, "Limit", p>> : sz \in {Lot, -Lot}, p \in LimitPrices}

Plans(n) == UNION {[1..k -> OrderKinds] : k \in 0..n}

\* next() of a loaded strategy: any sequence of buy()/sell() calls, each
\* going through ChinaStockBroker.submit
loaded_next ==
    /\ UNCHANGED batch_vars
    /\ pc = "next"
    /\ config.strategy_type = "loaded"
    /\ \E plan \in Plans(MaxOrders - last_ref) :
        LET created == [k \in 1..Len(plan) |->
                          NewOrder(last_ref + k, plan[k][1], plan[k][2], plan[k][3])]
            left == [k \in 1..Len(plan) |-> submit(created[k])]
        IN  /\ last_ref' = last_ref + Len(plan)
            /\ orders' = orders \o Taken(left)
            /\ notifs' = notifs \o SubmittedNotices(Taken(left))
            /\ submits' = [k \in 1..Len(plan) |-> SubmitRecord(created[k], left[k])]
            /\ only_buys' = (only_buys /\ \A k \in 1..Len(plan) : plan[k][1] > 0)
            /\ IF \E k \in 1..Len(plan) : SubmitRaises(left[k])
               THEN Propagate("submit error")
               ELSE pc' = "feed" /\ UNCHANGED task_vars
    /\ UNCHANGED <<config, data_vars, cash, position, value,
                   previous_close, buy_records, tradespending, strategy_vars,
                   fills, bought_today>>
    /\ prior_close' = NoPrice

\* variant: the engine catches the exception and returns what it has
strategy_raises_caught ==
    /\ UNCHANGED batch_vars
    /\ pc = "next"
    /\ config.strategy_type = "loaded"
    /\ pc' = "done" /\ run_result' = "result"
    /\ error_message' = <<"running the backtest failed", "hook error">>
    /\ UNCHANGED <<task_status, status_log, config, data_vars, broker_vars,
                   strategy_vars, history_vars>>

\* next() of a loaded strategy raises: the exception ends engine.run()
strategy_raises ==
    /\ UNCHANGED batch_vars
    /\ pc = "next"
    /\ config.strategy_type = "loaded"
    /\ Propagate("hook error")
    /\ UNCHANGED <<config, data_vars, broker_vars, strategy_vars, history_vars>>

\* cerebro.run() returns once the data is exhausted; engine.run() builds the
\* result and the task records COMPLETED, unless building the result raises
engine_finished ==
    /\ UNCHANGED batch_vars
    /\ pc = "feed"
    /\ len = kline_len
    /\ IF config.driver = "task"
       THEN \E ok \in BOOLEAN :
              IF ~ok
              THEN FailTask("run error")
              ELSE IF task_status = "none"
              THEN FailTask("KeyError")
              ELSE /\ task_status' = "completed"
                   /\ status_log' = Append(status_log, "completed")
                   /\ run_result' = "result"
                   /\ UNCHANGED error_message
                   /\ pc' = "saving"
       ELSE /\ pc' = "done" /\ run_result' = "result"
            /\ UNCHANGED <<task_status, status_log, error_message>>
    /\ UNCHANGED <<config, data_vars, broker_vars, strategy_vars, history_vars>>

\* variant: a failure to store the result reaches the outer except branch
save_result_unguarded ==
    /\ UNCHANGED batch_vars
    /\ pc = "saving"
    /\ \E ok \in BOOLEAN :
        IF ok THEN pc' = "done" /\ UNCHANGED task_vars ELSE FailTask("storing failed")
    /\ UNCHANGED <<config, data_vars, broker_vars, strategy_vars, history_vars>>

\* the result is stored and the notification created; a failure of either is
\* logged and changes nothing
save_result ==
    /\ UNCHANGED batch_vars
    /\ pc = "saving"
    /\ \E ok \in BOOLEAN :
        IF ok THEN pc' = "done" /\ UNCHANGED task_vars
        ELSE pc' = "done" /\ UNCHANGED task_vars    \* logger.error only
    /\ UNCHANGED <<config, data_vars, broker_vars, strategy_vars, history_vars>>

\* DELETE /backtesting/task/{task_id}: served whenever the background task is
\* not running synchronous code
delete_backtest_task ==
    /\ UNCHANGED batch_vars
    /\ pc \in {"queued", "fetching", "saving", "done"}
    /\ task_status # "none"
    /\ task_status' = "none"
    /\ UNCHANGED <<status_log, error_message, run_result, pc, config, data_vars, broker_vars,
                   strategy_vars, history_vars>>

Next ==
    \/ run_backtest
    \/ task_start
    \/ task_fetched
    \/ run_strategy_backtest
    \/ data_advance
    \/ broker_next
    \/ notify
    \/ prenext
    \/ sma_next
    \/ loaded_next
    \/ strategy_raises
    \/ engine_finished
    \/ save_result
    \/ delete_backtest_task

Spec == Init /\ [][Next]_vars

(* ------------------- ParameterOptimizer.grid_search ------------------- *)
\* candidate values a grid may list for a period parameter
CandidateValues == {1, 2}

\* values the engine may report as the Sharpe ratio of a run
Scores == {-1, 1}

\* target metric names of a request: a numeric field of the result, a field
\* of the result that holds a list, and a name the result does not have
Metrics == {"sharpe_ratio", "equity_curve", "no_such_metric"}

\* fields of the result dict that hold a list or a dict
ListFields == {"equity_curve", "trading_records", "benchmark_metrics"}

\* candidate lists, in the order the request gives them (repeats allowed)
CandidateLists ==
    UNION {[1..n -> CandidateValues] : n \in 0..MaxCandidates}

\* parameter grids as the ordered items of the param_grid dict
ParamGrids ==
    {<<>>}
    \cup {<<[name |-> n, values |-> l]>> :
            n \in {"fast_period", "slow_period"}, l \in CandidateLists}
    \cup {<<[name |-> n[1], values |-> l1], [name |-> n[2], values |-> l2]>> :
            n \in {<<"fast_period", "slow_period">>,
                   <<"slow_period", "fast_period">>},
            l1 \in CandidateLists, l2 \in CandidateLists}

\* param_names = list(param_grid.keys())
param_names(grid) == [i \in DOMAIN grid |-> grid[i].name]

\* param_values = list(param_grid.values())
param_values(grid) == [i \in DOMAIN grid |-> grid[i].values]

\* itertools.product(*lists) as a list: the last list varies fastest
RECURSIVE product(_)
product(lists) ==
    IF lists = <<>> THEN << <<>> >>
    ELSE LET h == Head(lists)
             rest == product(Tail(lists))
         IN [n \in 1..(Len(h) * Len(rest)) |->
                <<h[((n - 1) \div Len(rest)) + 1]>>
                    \o rest[((n - 1) % Len(rest)) + 1]]

\* param_dict = dict(zip(param_names, params))
param_dict(names, params) ==
    [n \in {names[i] : i \in DOMAIN names} |->
        params[CHOOSE i \in DOMAIN names : names[i] = n]]

\* fast_period >= slow_period, the comparison of the ordering check
OrderingBroken_strict(fast, slow) == fast > slow

OrderingBroken(fast, slow) == fast >= slow

\* the check that makes the loop skip a combination
SkipCombination(pd) ==
    /\ "fast_period" \in DOMAIN pd
    /\ "slow_period" \in DOMAIN pd
    /\ OrderingBroken(pd["fast_period"], pd["slow_period"])

\* result.get(metric, 0) for a metric that holds a number or is missing
Score(result, m) == IF m \in DOMAIN result THEN result[m] ELSE 0

\* score > best_score
Improves_orequal(score, best) == score >= best

Improves(score, best) == score > best

\* where the loop goes after the except branch: continue
OnException_abort(i, n) == n

OnException(i, n) == i + 1

\* results a run of the engine may return, reduced to the target metric
RunResults == {[sharpe_ratio |-> s] : s \in Scores}

\* what engine.run() does for a combination: raise (<<>>) or return a result
RunOutcomes == {<<>>} \cup {<<r>> : r \in RunResults}

\* POST /backtesting/optimize: fetch the K-line data and start grid_search up
\* to the loop
grid_search ==
    /\ sweep_pc = "idle"
    /\ pc = "idle"
    /\ \E grid \in ParamGrids, m \in Metrics, empty \in BOOLEAN :
        LET combos == product(param_values(grid)) IN
        /\ Len(combos) <= MaxCombinations
        /\ IF empty
           THEN /\ sweep_pc' = "raised"
                /\ error_message' = <<"no K-line data">>
                /\ UNCHANGED <<param_grid, metric, param_combinations>>
           ELSE /\ sweep_pc' = "loop"
                /\ param_grid' = grid
                /\ metric' = m
                /\ param_combinations' = combos
                /\ UNCHANGED error_message
    /\ idx' = 0
    /\ results' = <<>>
    /\ best_result' = <<>>
    /\ best_score' = NegInf
    /\ attempts' = <<>>
    /\ UNCHANGED <<task_status, status_log, run_result, pc, config, data_vars,
                   broker_vars, strategy_vars, history_vars, multi_vars, calc_vars>>

\* the combination the loop is at
CurrentParams ==
    param_dict(param_names(param_grid), param_combinations[idx + 1])

\* one pass of the loop that ends at the ordering check's continue
skip_combination ==
    /\ sweep_pc = "loop"
    /\ idx < Len(param_combinations)
    /\ SkipCombination(CurrentParams)
    /\ idx' = idx + 1
    /\ UNCHANGED <<task_vars, pc, config, data_vars, broker_vars,
                   strategy_vars, history_vars, multi_vars, calc_vars, param_grid, metric,
                   param_combinations, results, best_result, best_score,
                   attempts, sweep_pc>>

\* one pass of the loop that runs the engine on the combination
run_combination ==
    /\ sweep_pc = "loop"
    /\ idx < Len(param_combinations)
    /\ ~SkipCombination(CurrentParams)
    /\ \E outcome \in RunOutcomes :
        /\ attempts' = Append(attempts, [params |-> CurrentParams,
                                         threw |-> outcome = <<>>])
        /\ IF outcome = <<>>
           THEN /\ idx' = OnException(idx, Len(param_combinations))
                /\ UNCHANGED <<results, best_result, best_score>>
           ELSE /\ results' = Append(results, [params |-> CurrentParams,
                                               result |-> outcome[1]])
                /\ IF metric \in ListFields
                   THEN \* comparing a list with a float raises TypeError
                        /\ idx' = OnException(idx, Len(param_combinations))
                        /\ UNCHANGED <<best_result, best_score>>
                   ELSE LET score == Score(outcome[1], metric) IN
                        /\ idx' = idx + 1
                        /\ IF Improves(score, best_score)
                           THEN /\ best_score' = score
                                /\ best_result' = <<[params |-> CurrentParams,
                                                     result |-> outcome[1],
                                                     score |-> score]>>
                           ELSE UNCHANGED <<best_result, best_score>>
    /\ UNCHANGED <<task_vars, pc, config, data_vars, broker_vars,
                   strategy_vars, history_vars, multi_vars, calc_vars, param_grid, metric,
                   param_combinations, sweep_pc>>

\* the record grid_search returns, without its copies of the best run's
\* metrics and full result
ReturnRecord ==
    [best_params |-> best_result[1].params,
     best_score |-> best_result[1].score,
     all_results |-> results,
     total_combinations |-> Len(param_combinations),
     successful_combinations |-> Len(results)]

\* after the loop: raise when no combination succeeded, else return
grid_search_end ==
    /\ sweep_pc = "loop"
    /\ idx = Len(param_combinations)
    /\ IF best_result = <<>>
       THEN /\ sweep_pc' = "raised"
            /\ error_message' = <<"all combinations failed">>
       ELSE /\ sweep_pc' = "returned"
            /\ UNCHANGED error_message
    /\ UNCHANGED <<task_status, status_log, run_result, pc, config, data_vars,
                   broker_vars, strategy_vars, history_vars, multi_vars, calc_vars,
                   param_grid, metric, param_combinations, idx, results,
                   best_result, best_score, attempts>>

SweepNext ==
    \/ grid_search
    \/ skip_combination
    \/ run_combination
    \/ grid_search_end

SweepSpec == Init /\ [][SweepNext]_vars

(* --------------------- run_multi_strategy_backtest -------------------- *)
\* initial_cash of a portfolio run, in fen (6000 yuan)
MultiInitialCash == 600000

\* (fast_period, slow_period) an entry may ask for
MultiPeriodChoices == {<<1, 2>>, <<2, 3>>}

\* the strategy entries of a request: the weight may be missing
StrategyEntries ==
    {[params |-> p, has_weight |-> TRUE, weight |-> w] :
        p \in MultiPeriodChoices, w \in {0, 2}}
    \cup {[params |-> p, has_weight |-> FALSE, weight |-> 0] :
            p \in MultiPeriodChoices}

StrategyLists == UNION {[1..n -> StrategyEntries] : n \in 1..MaxStrategies}

\* what the analyzers may report for a run in which an order was executed:
\* annual return and max drawdown (percent), and the Sharpe ratio, which is
\* None (<<>>) when the analyzer cannot compute it
Analyses ==
    {[annual_return |-> 10, sharperatio |-> <<1>>, max_drawdown |-> 5],
     [annual_return |-> 10, sharperatio |-> <<>>, max_drawdown |-> 5],
     [annual_return |-> -20, sharperatio |-> <<-2>>, max_drawdown |-> 30]}

\* what the analyzers report for a run in which nothing was executed: the
\* broker value never moved, so every return is 0 and their deviation is 0,
\* for which the Sharpe analyzer reports None
UnmovedAnalysis == [annual_return |-> 0, sharperatio |-> <<>>, max_drawdown |-> 0]

AnalysesOf(trades) == IF trades = <<>> THEN {UnmovedAnalysis} ELSE Analyses

\* result['sharpe_ratio']: the analyzer's value, 0 if it is None
sharpe_ratio(a) == IF a.sharperatio = <<>> THEN 0 ELSE a.sharperatio[1]

\* s.get('weight', 1.0)
GetWeight(s) == IF s.has_weight THEN s.weight ELSE 1

\* sum(s.get('weight', 1.0) for s in strategies)
RECURSIVE total_weight(_)
total_weight(list) ==
    IF list = <<>> THEN 0 ELSE GetWeight(Head(list)) + total_weight(Tail(list))

\* variant: the weight of an entry, not normalized
Weight_raw(s, total) == [num |-> GetWeight(s), den |-> 1]

\* weight = strategy_config.get('weight', 1.0) / total_weight, as a fraction
Weight(s, total) == [num |-> GetWeight(s), den |-> total]

\* strategy_cash = initial_cash * weight
strategy_cash(initial_cash, weight) == (initial_cash * weight.num) \div weight.den

\* the engine configuration of the sub-run of an entry
SubConfig(s, total) ==
    [driver |-> "multi", strategy_type |-> "simple_ma", enable_t1 |-> TRUE,
     enable_price_limit |-> TRUE, fast_period |-> s.params[1],
     slow_period |-> s.params[2],
     initial_cash |-> strategy_cash(MultiInitialCash, Weight(s, total))]

\* sum of a field over the results
RECURSIVE SumOf(_, _)
SumOf(rs, field) ==
    IF rs = <<>> THEN 0 ELSE Head(rs)[field] + SumOf(Tail(rs), field)

\* sum(r[field] * r['weight'] for r in strategy_results): the numerator over
\* the common denominator of the weights
RECURSIVE WeightedSum(_, _)
WeightedSum(rs, field) ==
    IF rs = <<>> THEN 0
    ELSE Head(rs)[field] * Head(rs).weight.num + WeightedSum(Tail(rs), field)

\* variant: the smallest max drawdown
Extreme_min(rs, field) ==
    CHOOSE m \in {rs[i][field] : i \in DOMAIN rs} :
        \A i \in DOMAIN rs : rs[i][field] >= m

\* max(r[field] for r in strategy_results)
Extreme(rs, field) ==
    CHOOSE m \in {rs[i][field] : i \in DOMAIN rs} :
        \A i \in DOMAIN rs : rs[i][field] <= m

\* sorted(set(...)) of integers
RECURSIVE Sorted(_)
Sorted(S) ==
    IF S = {} THEN <<>>
    ELSE LET m == CHOOSE x \in S : \A y \in S : x <= y
         IN  <<m>> \o Sorted(S \ {m})

\* all('equity_curve' in r and r['equity_curve'] for r in strategy_results)
CurvesMerge(rs) == \A i \in DOMAIN rs : rs[i].equity_curve # <<>>

\* next((item for item in curve if item['date'] == date), None), as a
\* sequence of at most one item
DateData(curve, date) ==
    LET hits == {i \in DOMAIN curve : curve[i].date = date}
    IN  IF hits = {} THEN <<>>
        ELSE <<curve[CHOOSE i \in hits : \A j \in hits : i <= j]>>

\* total of a field of the points the results have at a date
RECURSIVE TotalAt(_, _, _)
TotalAt(rs, date, field) ==
    IF rs = <<>> THEN 0
    ELSE LET d == DateData(Head(rs).equity_curve, date)
         IN  (IF d = <<>> THEN 0 ELSE d[1][field]) + TotalAt(Tail(rs), date, field)

\* the combined equity curve
combined_equity_curve(rs) ==
    IF CurvesMerge(rs)
    THEN LET all_dates ==
                Sorted(UNION {{rs[i].equity_curve[k].date :
                                  k \in DOMAIN rs[i].equity_curve} : i \in DOMAIN rs})
         IN  [n \in DOMAIN all_dates |->
                [date |-> all_dates[n],
                 value |-> TotalAt(rs, all_dates[n], "value"),
                 cash |-> TotalAt(rs, all_dates[n], "cash")]]
    ELSE <<>>

\* the records of all results, each with the index of its strategy
RECURSIVE TaggedRecords(_, _)
TaggedRecords(rs, i) ==
    IF i > Len(rs) THEN <<>>
    ELSE [k \in DOMAIN rs[i].trading_records |->
            [strategy |-> i, record |-> rs[i].trading_records[k]]]
         \o TaggedRecords(rs, i + 1)

\* list.sort(key=date): stable
RECURSIVE SortByDate(_)
SortByDate(seq) ==
    IF seq = <<>> THEN <<>>
    ELSE LET m == CHOOSE i \in DOMAIN seq :
                    /\ \A j \in DOMAIN seq : seq[i].record.date <= seq[j].record.date
                    /\ \A j \in 1..(i - 1) : seq[j].record.date # seq[i].record.date
         IN  <<seq[m]>>
             \o SortByDate(SubSeq(seq, 1, m - 1) \o SubSeq(seq, m + 1, Len(seq)))

\* combine_strategy_results(strategy_results, initial_cash); the weighted
\* sums are fractions over the total weight
combine_strategy_results(rs, initial_cash) ==
    [initial_value |-> initial_cash,
     final_value |-> SumOf(rs, "final_value"),
     annual_return |-> [num |-> WeightedSum(rs, "annual_return"),
                        den |-> Head(rs).weight.den],
     sharpe_ratio |-> [num |-> WeightedSum(rs, "sharpe_ratio"),
                       den |-> Head(rs).weight.den],
     max_drawdown |-> Extreme(rs, "max_drawdown"),
     equity_curve |-> combined_equity_curve(rs),
     trading_records |-> SortByDate(TaggedRecords(rs, 1)),
     strategy_count |-> Len(rs)]

\* an exception leaves run_multi_strategy: HTTP 500 with str(e)
MultiRaise(message) ==
    /\ pc' = "done"
    /\ error_message' = <<message>>

\* POST /backtesting/multi-strategy up to the loop over the strategies
run_multi_strategy ==
    /\ pc = "idle"
    /\ sweep_pc = "idle"
    /\ \E list \in StrategyLists, n \in 0..MaxMultiBars :
        IF Len(list) < 2
        THEN /\ MultiRaise("at least 2 strategies")
             /\ UNCHANGED <<strategies, kline_len, config>>
        ELSE IF n = 0
        THEN /\ MultiRaise("no K-line data")
             /\ UNCHANGED <<strategies, kline_len, config>>
        ELSE /\ strategies' = list
             /\ kline_len' = n
             /\ config' = [NoConfig EXCEPT !.driver = "multi"]
             /\ pc' = "allocate"
             /\ UNCHANGED error_message
    /\ UNCHANGED <<task_status, status_log, run_result, bar, len, closes,
                   broker_vars, strategy_vars, history_vars, strategy_results,
                   kline, combined, sweep_vars, calc_vars>>

\* the head of one pass of the loop: weight, cash, a new engine with its own
\* broker, a copy of the data, the strategy
sub_run_start ==
    /\ pc = "allocate"
    /\ config.driver = "multi"
    /\ LET s == strategies[Len(strategy_results) + 1]
           total == total_weight(strategies)
       IN  IF total = 0
           THEN /\ MultiRaise("division by zero")
                /\ UNCHANGED <<config, bar, len, closes, broker_vars,
                               strategy_vars, history_vars>>
           ELSE /\ config' = SubConfig(s, total)
                /\ EngineSetup(SubConfig(s, total))
                /\ bar' = NoBar /\ len' = 0 /\ closes' = <<>>
                /\ fills' = <<>> /\ bought_today' = 0 /\ submits' = <<>>
                /\ only_buys' = TRUE /\ prior_close' = NoPrice
                /\ pc' = "feed"
                /\ UNCHANGED error_message
    /\ UNCHANGED <<task_status, status_log, run_result, kline_len, multi_vars,
                   sweep_vars, calc_vars>>

\* engine.run() after cerebro.run(): the result of the sub-run, which gets
\* its weight and is appended; total_return divides by the start value
sub_run_finished ==
    /\ pc = "feed"
    /\ config.driver = "multi"
    /\ len = kline_len
    /\ IF config.initial_cash = 0
       THEN /\ MultiRaise("division by zero")
            /\ UNCHANGED strategy_results
       ELSE \E a \in AnalysesOf(trade_list) :
            LET s == strategies[Len(strategy_results) + 1]
                result == [initial_value |-> config.initial_cash,
                           final_value |-> value,
                           annual_return |-> a.annual_return,
                           sharpe_ratio |-> sharpe_ratio(a),
                           max_drawdown |-> a.max_drawdown,
                           trading_records |-> trade_list,
                           equity_curve |-> equity_curve,
                           weight |-> Weight(s, total_weight(strategies)),
                           strategy_params |-> s.params]
            IN  /\ strategy_results' = Append(strategy_results, result)
                /\ pc' = IF Len(strategy_results) + 1 < Len(strategies)
                         THEN "allocate" ELSE "combine"
                /\ UNCHANGED error_message
    /\ UNCHANGED <<task_status, status_log, run_result, config, data_vars,
                   broker_vars, strategy_vars, history_vars, strategies, kline,
                   combined, sweep_vars, calc_vars>>

\* after the loop: the results are combined and returned
combine ==
    /\ pc = "combine"
    /\ combined' = <<combine_strategy_results(strategy_results, MultiInitialCash)>>
    /\ run_result' = "result"
    /\ pc' = "done"
    /\ UNCHANGED <<task_status, status_log, error_message, config, data_vars,
                   broker_vars, strategy_vars, history_vars, strategies,
                   strategy_results, kline, sweep_vars, calc_vars>>

MultiNext ==
    \/ run_multi_strategy
    \/ sub_run_start
    \/ data_advance
    \/ broker_next
    \/ notify
    \/ prenext
    \/ sma_next
    \/ sub_run_finished
    \/ combine

MultiSpec == Init /\ [][MultiNext]_vars

(* ------------------ ChinaStockCommission._getcommission --------------- *)
\* prices of the executions quoted, in fen (0, 10.00 and 13.00 yuan)
QuotePrices == {0} \cup Prices

\* one call of _getcommission, as the base broker makes it for an execution:
\* the size is negative for a sell
quote_commission ==
    /\ \E side \in {"buy", "sell"}, lots \in 0..MaxQuoteLots, price \in QuotePrices :
        LET size == IF side = "sell" THEN -(lots * Lot) ELSE lots * Lot
        IN  quote' = <<[side |-> side, size |-> lots * Lot, price |-> price,
                        commission |-> getcommission(size, price)]>>
    /\ UNCHANGED <<task_vars, pc, config, data_vars, broker_vars, strategy_vars,
                   history_vars, multi_vars, sweep_vars>>

CostNext == quote_commission

CostSpec == Init /\ [][CostNext]_vars

(* ------------------------------- claims ------------------------------- *)
\* band of the daily price limit around a previous close
UpperLimit(prev_close) == (prev_close * (100 + PriceLimitPct)) \div 100
LowerLimit(prev_close) == (prev_close * (100 - PriceLimitPct)) \div 100

\* C1: with T+1 enabled, the size of every sell fill is at most the position
\* held before the fill minus the quantity bought on the same trading day.
C1_SellFillWithinSellable ==
    config.enable_t1 =>
        \A i \in DOMAIN fills :
            fills[i].size < 0 =>
                -fills[i].size <= fills[i].position_before - fills[i].bought_before

\* a sell larger than the position less the quantity the ledger holds for the
\* current day
Oversized(s) == s.size < 0 /\ -s.size > s.position_before - s.today_buy

InQueue(ref) == \E j \in DOMAIN orders : orders[j].ref = ref

\* C2 as stated: a sell order larger than the currently sellable quantity is
\* rejected, produces no fill and leaves the position unchanged.
C2_OversizedSellRejected ==
    \A i \in DOMAIN submits :
        Oversized(submits[i]) =>
            /\ submits[i].status = "Rejected"
            /\ ~InQueue(submits[i].ref)
            /\ position = submits[i].position_before

\* C2 amended: with T+1 enabled, a sell order larger than the position less the
\* quantity recorded as bought on the current day is rejected by submit, never
\* reaches the base broker (so it produces no fill) and leaves the position
\* unchanged; no rejected order is ever filled.
C2_OversizedSellRejectedWithT1 ==
    /\ config.enable_t1 =>
         \A i \in DOMAIN submits :
             Oversized(submits[i]) =>
                 /\ submits[i].status = "Rejected"
                 /\ ~InQueue(submits[i].ref)
                 /\ position = submits[i].position_before
    /\ \A i \in DOMAIN fills : fills[i].order_status # "Rejected"

C2_Witness ==
    /\ config.enable_t1
    /\ \E i \in DOMAIN submits :
         /\ Oversized(submits[i]) /\ submits[i].status = "Rejected"
         /\ submits[i].today_buy > 0

BuyNotices(status) == {i \in DOMAIN notifs : notifs[i].isbuy /\ notifs[i].status = status}

\* C3: a buy fill lowers cash by exactly price x size plus the fill's
\* commission; while only buy orders have been submitted, cash is never
\* negative, every buy fill is for the whole order, and a buy that the cash
\* cannot cover ends in Margin without any fill.
C3_BuyCash ==
    /\ \A i \in DOMAIN fills :
         fills[i].size > 0 =>
             /\ fills[i].cash_after
                  = fills[i].cash_before - (fills[i].price * fills[i].size + fills[i].comm)
             /\ fills[i].position_before >= 0 =>
                  fills[i].comm = Max((fills[i].price * fills[i].size * CommissionPer10000)
                                         \div 10000, MinCommission)
    /\ only_buys =>
         /\ cash >= 0
         /\ \A i \in DOMAIN fills :
              fills[i].size = fills[i].ordered /\ fills[i].cash_after >= 0
         /\ \A i \in BuyNotices("Margin") :
              \A j \in DOMAIN fills : fills[j].ref # notifs[i].ref

C3_Witness ==
    /\ only_buys
    /\ \E j \in DOMAIN fills : fills[j].size > 0
    /\ BuyNotices("Margin") # {}

\* C4: with price limits enabled, on any bar that has a previous bar every
\* fill price lies within the band around the previous bar's close.
C4_FillWithinBand ==
    config.enable_price_limit =>
        \A i \in DOMAIN fills :
            fills[i].prev_close # NoPrice =>
                /\ fills[i].price <= UpperLimit(fills[i].prev_close)
                /\ fills[i].price >= LowerLimit(fills[i].prev_close)

C6_EquityPointValue ==
    config.strategy_type = "simple_ma" =>
        /\ Len(positions_log) = Len(equity_curve)
        /\ \A i \in DOMAIN equity_curve :
             equity_curve[i].value
               = equity_curve[i].cash + positions_log[i] * closes[equity_curve[i].date]

C6_Witness ==
    /\ config.strategy_type = "simple_ma"
    /\ \E i \in DOMAIN equity_curve :
         positions_log[i] > 0 /\ equity_curve[i].value # equity_curve[i].cash

\* the run went through all its bars
RunOver ==
    /\ kline_len > 0 /\ len = kline_len
    /\ pc \in {"saving", "done"}
    /\ config.driver = "task" => status_log[Len(status_log)] = "completed"

\* C7: after a completed run of n >= 1 bars the equity curve holds exactly n points, one
\* for every bar including the first, with strictly increasing dates.
C7_OnePointPerBar ==
    (config.strategy_type = "simple_ma" /\ RunOver) =>
        /\ Len(equity_curve) = kline_len
        /\ \A i \in DOMAIN equity_curve : equity_curve[i].date = i

Terminal == {"Completed", "Margin", "Rejected"}

C9_StatusLifecycle ==
    /\ status_log \in {<<>>, <<"pending">>, <<"pending", "running">>,
                       <<"pending", "running", "completed">>,
                       <<"pending", "running", "failed">>}
    /\ task_status # "none" =>
         status_log # <<>> /\ task_status = status_log[Len(status_log)]

C9_Witness == pc = "done" /\ task_status = "completed"

\* C10 as stated: a run whose bar sequence is empty fails without ever having
\* been running.
C10_EmptyFailsFromPending ==
    (kline_len = 0 /\ task_status = "failed") => status_log = <<"pending", "failed">>

\* C10 amended: a run whose bar sequence is empty fails before the engine is
\* set up and before any bar is processed; the task was marked running before
\* the bars were fetched, so its status goes pending -> running -> failed.
C10_EmptyFailsBeforeEngine ==
    kline_len = 0 =>
        /\ len = 0 /\ cash = 0 /\ equity_curve = <<>> /\ fills = <<>>
        /\ pc \in {"done", "crashed"}
        /\ config.driver = "task" =>
             /\ status_log \in {<<"pending", "running">>,
                                 <<"pending", "running", "failed">>}
             /\ task_status # "none" =>
                  task_status = "failed" /\ status_log = <<"pending", "running", "failed">>

C10_Witness == kline_len = 0 /\ task_status = "failed" /\ pc = "done"

Carries(message) == \E i \in DOMAIN error_message : error_message[i] = message

\* C11: an exception raised in a strategy's per-bar hook is not swallowed: the
\* run ends at once with no result and with an error whose message carries
\* the original one; a failed task always has a message and no result, and a
\* result is only ever returned by a run that went through all its bars
\* without an error.
C11_HookErrorPropagates ==
    /\ Carries("hook error") =>
         /\ pc = "done" /\ run_result = "none"
         /\ error_message[Len(error_message)] = "hook error"
    /\ error_message # <<>> => run_result = "none" /\ pc = "done"
    /\ task_status = "failed" => error_message # <<>> /\ run_result = "none"
    /\ run_result = "result" => error_message = <<>> /\ len = kline_len

C11_Witness ==
    /\ Carries("hook error") /\ run_result = "none" /\ pc = "done"
    /\ len < kline_len

\* a step in which the broker turns an order down: Margin for a buy the cash
\* cannot cover, Rejected for a sell failing T+1, or a limit price moved to
\* the band
RejectionStep ==
    \/ /\ pc = "broker"
       /\ \E i \in DOMAIN notifs' : notifs'[i].status = "Margin"
    \/ /\ pc = "next"
       /\ \E i \in DOMAIN submits' :
            \/ submits'[i].status = "Rejected"
            \/ submits'[i].price # submits'[i].requested

\* C12: a business rejection never raises and never fails the run: the step
\* in which it happens goes on to the next stage of the bar loop and leaves
\* the task's status, error message and result untouched; and a run returns a
\* result only after the loop has processed every bar.
C12_RejectionKeepsRunning ==
    /\ [](run_result = "result" => len = kline_len /\ error_message = <<>>)
    /\ [][RejectionStep =>
            /\ pc' = (IF pc = "broker" THEN "notify" ELSE "feed")
            /\ UNCHANGED task_vars]_vars

\* a completed run of SimpleMovingAverageStrategy in which a sell was created
\* on an earlier bar and neither filled nor left pending: it was rejected
C12_Witness ==
    /\ config.strategy_type = "simple_ma"
    /\ task_status = "completed" /\ run_result = "result" /\ len = kline_len
    /\ ~only_buys /\ orders = <<>> /\ submits = <<>>
    /\ \A i \in DOMAIN trade_list : trade_list[i].action = "buy"

\* grid_search has got as far as its loop (the K-line data was there)
SweepStarted == sweep_pc # "idle" /\ error_message # <<"no K-line data">>

\* grid_search is over: it returned, or raised because no combination succeeded
SweepOver ==
    sweep_pc = "returned" \/ error_message = <<"all combinations failed">>

\* C13: a sweep asked to rank by a metric name the run results do not have
\* runs no backtest and never returns a best combination.
C13_UnknownMetricFailsEarly ==
    metric = "no_such_metric" => attempts = <<>> /\ sweep_pc # "returned"

\* the candidate lists of the grid, in key order
GridLists == [i \in DOMAIN param_grid |-> param_grid[i].values]

\* position of a parameter name among the keys of the grid (0: not a key)
KeyIndex(name) ==
    IF \E i \in DOMAIN param_grid : param_grid[i].name = name
    THEN CHOOSE i \in DOMAIN param_grid : param_grid[i].name = name
    ELSE 0

\* the ordering rule: the combination has both periods and fast >= slow
BreaksOrdering(c) ==
    /\ KeyIndex("fast_period") # 0
    /\ KeyIndex("slow_period") # 0
    /\ c[KeyIndex("fast_period")] >= c[KeyIndex("slow_period")]

KeepsOrdering(c) == ~BreaksOrdering(c)

\* the combinations gone through so far that keep the ordering rule
DueRuns == SelectSeq(SubSeq(param_combinations, 1, idx), KeepsOrdering)

\* C18: the enumeration is the full Cartesian product of the candidate lists
\* (the last key varying fastest), and the backtests run so far are, one for
\* one and in order, the combinations gone through that do not have both
\* periods with fast_period >= slow_period; when the sweep is over every
\* combination has been gone through.
C18_RunsExactlyTheOrderedProduct ==
    SweepStarted =>
        /\ Len(param_grid) = 0 => param_combinations = << <<>> >>
        /\ Len(param_grid) = 1 =>
              param_combinations =
                  [n \in 1..Len(GridLists[1]) |-> <<GridLists[1][n]>>]
        /\ Len(param_grid) = 2 =>
              /\ Len(param_combinations) = Len(GridLists[1]) * Len(GridLists[2])
              /\ \A a \in DOMAIN GridLists[1], b \in DOMAIN GridLists[2] :
                    param_combinations[(a - 1) * Len(GridLists[2]) + b]
                        = <<GridLists[1][a], GridLists[2][b]>>
        /\ Len(attempts) = Len(DueRuns)
        /\ \A i \in DOMAIN attempts :
              /\ DOMAIN attempts[i].params
                    = {param_grid[j].name : j \in DOMAIN param_grid}
              /\ \A j \in DOMAIN param_grid :
                    attempts[i].params[param_grid[j].name] = DueRuns[i][j]
        /\ SweepOver => idx = Len(param_combinations)

\* a finished sweep over a grid of two candidates for each period, of whose
\* four combinations some were run and some were skipped
C18_Witness ==
    /\ sweep_pc = "returned"
    /\ Len(param_grid) = 2
    /\ Len(param_combinations) = 4
    /\ Len(attempts) = 2
    /\ \E i \in DOMAIN param_combinations :
          param_combinations[i][KeyIndex("fast_period")]
              = param_combinations[i][KeyIndex("slow_period")]

\* the target metric of the i-th recorded result
Recorded(i) == results[i].result[metric]

\* C19: when grid_search returns with a target metric the results have,
\* best_score is the maximum of that metric over the recorded (successful)
\* runs, and best_params is the first recorded combination that attains it.
C19_BestIsFirstMaximum ==
    sweep_pc = "returned" /\ metric = "sharpe_ratio" =>
        /\ results # <<>>
        /\ best_result # <<>>
        /\ best_result[1].score = best_score
        /\ \A i \in DOMAIN results : Recorded(i) <= best_score
        /\ \E i \in DOMAIN results :
              /\ Recorded(i) = best_score
              /\ \A j \in 1..(i - 1) : Recorded(j) < best_score
              /\ best_result[1].params = results[i].params
              /\ best_result[1].result = results[i].result

\* a returned sweep in which two different combinations attain the best
\* score and the earlier one is the best combination
C19_Witness ==
    /\ sweep_pc = "returned" /\ metric = "sharpe_ratio"
    /\ Len(results) >= 2
    /\ Recorded(1) = best_score /\ Recorded(2) = best_score
    /\ results[1].params # results[2].params
    /\ best_result[1].params = results[1].params

\* a step in which the run of a combination throws
ThrowStep ==
    /\ Len(attempts') = Len(attempts) + 1
    /\ attempts'[Len(attempts')].threw

\* C20: a combination whose run throws leaves the recorded results and the
\* best combination so far as they were and moves the loop on to the next
\* combination; the sweep ends only after the last combination.
C20_ThrowingRunIsSkipped ==
    /\ [](SweepOver => idx = Len(param_combinations))
    /\ [][ThrowStep =>
            /\ UNCHANGED <<results, best_result, best_score>>
            /\ idx' = idx + 1
            /\ sweep_pc' = "loop"]_vars

\* a returned sweep whose second run threw, between two runs that succeeded
C20_Witness ==
    /\ sweep_pc = "returned"
    /\ Len(attempts) >= 3
    /\ ~attempts[1].threw /\ attempts[2].threw /\ ~attempts[3].threw
    /\ Len(results) = 2

\* the weight of the i-th entry of the request (a missing weight is 1)
EntryWeight(i) == IF strategies[i].has_weight THEN strategies[i].weight ELSE 1

RECURSIVE SeqSum(_)
SeqSum(q) == IF q = <<>> THEN 0 ELSE Head(q) + SeqSum(Tail(q))

\* the sum of the weights of the request
WeightSum == SeqSum([i \in DOMAIN strategies |-> EntryWeight(i)])

\* the step that sets up the next sub-run gives it the cash
\* initial_cash * w_i / (sum of the weights)
AllocatesByWeight ==
    /\ pc' = "feed"
    /\ cash' * WeightSum = MultiInitialCash * EntryWeight(Len(strategy_results) + 1)
    /\ config'.initial_cash = cash'

C15_CombinedMetrics ==
    combined # <<>> =>
        LET rs == strategy_results
            c == combined[1]
        IN  /\ c.final_value = SeqSum([i \in DOMAIN rs |-> rs[i].final_value])
            /\ c.annual_return.den # 0 /\ c.sharpe_ratio.den # 0
            /\ c.annual_return.num * WeightSum
                  = c.annual_return.den
                    * SeqSum([i \in DOMAIN rs |-> rs[i].annual_return * EntryWeight(i)])
            /\ c.sharpe_ratio.num * WeightSum
                  = c.sharpe_ratio.den
                    * SeqSum([i \in DOMAIN rs |-> rs[i].sharpe_ratio * EntryWeight(i)])
            /\ \A i \in DOMAIN rs : rs[i].max_drawdown <= c.max_drawdown
            /\ \E i \in DOMAIN rs : rs[i].max_drawdown = c.max_drawdown

\* a returned portfolio run of two sub-runs of different weight, drawdown and
\* return, one of which traded
C15_Witness ==
    /\ combined # <<>>
    /\ EntryWeight(1) # EntryWeight(2)
    /\ strategy_results[1].max_drawdown > strategy_results[2].max_drawdown
    /\ strategy_results[1].annual_return # strategy_results[2].annual_return
    /\ strategy_results[1].final_value # strategy_results[1].initial_value

\* the dates of the points of a curve
DatesOf(curve) == {curve[k].date : k \in DOMAIN curve}

\* the dates that appear in the curve of any sub-run
AllDates == UNION {DatesOf(strategy_results[i].equity_curve) :
                      i \in DOMAIN strategy_results}

\* the value a sub-run has at a date, 0 if it has no point there
ValueAt(i, date) ==
    LET curve == strategy_results[i].equity_curve
    IN  IF date \in DatesOf(curve)
        THEN curve[CHOOSE k \in DOMAIN curve : curve[k].date = date].value
        ELSE 0

\* C16: the combined equity curve has exactly one point for every date of
\* any sub-run's curve, in ascending order, and its value there is the sum of
\* the values of the sub-runs that have a point at that date.
C16_CurveIsUnionOfDates ==
    combined # <<>> =>
        LET curve == combined[1].equity_curve
        IN  /\ DatesOf(curve) = AllDates
            /\ Len(curve) = Cardinality(AllDates)
            /\ \A k \in DOMAIN curve :
                  /\ k > 1 => curve[k - 1].date < curve[k].date
                  /\ curve[k].value
                        = SeqSum([i \in DOMAIN strategy_results |->
                                    ValueAt(i, curve[k].date)])

SucceededRuns == {i \in DOMAIN attempts : ~attempts[i].threw}
ThrewRuns == {i \in DOMAIN attempts : attempts[i].threw}

\* C21: grid_search raises 'all combinations failed' only if every run
\* failed: a finished sweep with a run that succeeded has returned a best
\* combination, and a sweep that reports 'all combinations failed' has a run
\* that threw.
C21_RaisesOnlyIfEveryRunFailed ==
    /\ SweepOver /\ SucceededRuns # {} => sweep_pc = "returned"
    /\ error_message = <<"all combinations failed">> => ThrewRuns # {}

\* C22: the record a sweep returns carries the records of exactly the runs
\* that succeeded, in order, and total_combinations minus
\* successful_combinations is the number of runs that threw.
C22_FailedCountIsExact ==
    sweep_pc = "returned" =>
        /\ Len(ReturnRecord.all_results) = Cardinality(SucceededRuns)
        /\ ReturnRecord.successful_combinations = Cardinality(SucceededRuns)
        /\ ReturnRecord.total_combinations - ReturnRecord.successful_combinations
              = Cardinality(ThrewRuns)

\* every close of a series is the same
Flat(seq) == \A i \in DOMAIN seq, j \in DOMAIN seq : seq[i] = seq[j]

\* C23: on a flat price series SimpleMovingAverageStrategy creates no order
\* on any bar: while the closes seen are all equal the run has no order, no
\* trade and no position, and cash and value are the initial cash; and the
\* result of a run over a flat series has no trading record, final value
\* equal to the initial value and Sharpe ratio 0.
C23_FlatSeriesNoTrade ==
    /\ config.driver = "multi" /\ config.strategy_type = "simple_ma"
          /\ pc \in {"feed", "broker", "notify", "next"} /\ Flat(closes) =>
            /\ last_ref = 0 /\ orders = <<>> /\ submits = <<>>
            /\ trade_list = <<>> /\ position = 0
            /\ cash = config.initial_cash /\ value = config.initial_cash
    /\ Flat([i \in DOMAIN kline |-> kline[i].close]) =>
            \A i \in DOMAIN strategy_results :
                /\ strategy_results[i].trading_records = <<>>
                /\ strategy_results[i].final_value = strategy_results[i].initial_value
                /\ strategy_results[i].sharpe_ratio = 0

\* a finished sub-run over four or more bars of one price whose strategy
\* was called (it has equity points)
C23_Witness ==
    /\ strategy_results # <<>>
    /\ Len(kline) >= 4
    /\ Flat([i \in DOMAIN kline |-> kline[i].close])
    /\ Len(strategy_results[1].equity_curve) >= 2
    /\ strategy_results[1].sharpe_ratio = 0

\* C24: the commission of an execution of size >= 0 at price >= 0 is
\* max(price * size * commission rate, minimum commission), plus
\* price * size * stamp duty rate if and only if it is a sell; it is never
\* below the minimum commission (amounts times 10000).
C24_TransactionCost ==
    quote # <<>> =>
        LET q == quote[1]
            amount == q.price * q.size
        IN  /\ q.commission * 10000
                  = (IF amount * CommissionPer10000 > MinCommission * 10000
                     THEN amount * CommissionPer10000 ELSE MinCommission * 10000)
                    + (IF q.side = "sell" THEN amount * StampDutyPer10000 ELSE 0)
            /\ q.commission >= MinCommission

\* a sell large enough for the proportional commission to exceed the minimum
C24_Witness ==
    /\ quote # <<>>
    /\ quote[1].side = "sell"
    /\ quote[1].price * quote[1].size * CommissionPer10000 > MinCommission * 10000
    /\ quote[1].commission > MinCommission

\* the last point of the equity curve is dated the current bar
PointTaken ==
    /\ equity_curve # <<>>
    /\ equity_curve[Len(equity_curve)].date = CurrentDate

\* an execution of the order on the current bar
Filled(ref) == \E k \in DOMAIN fills : fills[k].ref = ref

\* C25: the equity point dated bar N is taken after every order the
\* strategy submitted on bar N has been filled or rejected.
C25_PointAfterOrders ==
    config.strategy_type = "simple_ma" /\ PointTaken =>
        \A i \in DOMAIN submits :
            submits[i].status = "Rejected" \/ Filled(submits[i].ref)

\* the ledger's quantity for a date
Ledger(date) == IF date \in DOMAIN buy_records THEN buy_records[date] ELSE 0

\* C27: the T+1 check is date-scoped: the quantity it takes off the position
\* is the ledger's entry for the current date, which holds nothing bought on
\* an earlier date; so a sell of no more than the position less the shares
\* bought on the current date is never rejected, whatever was bought before.
C27_T1DateScoped ==
    /\ \A d \in DOMAIN buy_records : d <= CurrentDate
    /\ pc \in {"next", "feed"} => Ledger(CurrentDate) <= bought_today
    /\ \A i \in DOMAIN submits :
          LET s == submits[i]
          IN  s.size < 0 =>
                /\ s.today_buy <= bought_today
                /\ -s.size <= s.position_before - bought_today =>
                      s.status = "Submitted"
                /\ s.status = "Rejected" =>
                      config.enable_t1 /\ -s.size > s.position_before - s.today_buy

\* with T+1 on, a sell of shares bought on an earlier date, which the ledger
\* still holds, leaves submit accepted
C27_Witness ==
    /\ config.enable_t1
    /\ \E i \in DOMAIN submits :
          /\ submits[i].size < 0 /\ submits[i].status = "Submitted"
          /\ submits[i].position_before >= -submits[i].size
          /\ submits[i].today_buy = 0
    /\ \E d \in DOMAIN buy_records : d < CurrentDate /\ buy_records[d] > 0

\* C28: once the notifications of a bar are delivered, the ledger's quantity
\* for the current date is the sum of the sizes of the buy fills of that date.
C28_LedgerMatchesBuyFills ==
    pc \in {"next", "feed"} => Ledger(CurrentDate) = bought_today

\* C29: a rejection reaches the strategy: when SimpleMovingAverageStrategy is
\* called for a bar, its pending-order marker is clear or names an order the
\* broker still holds, never an order that was rejected.
C29_RejectionClearsMarker ==
    config.strategy_type = "simple_ma" /\ pc = "next" =>
        self_order = 0 \/ InQueue(self_order)

\* C30: a background run never ends in an unhandled error, whenever the task
\* is deleted, and a deleted task is never written again.
C30_RunSurvivesDelete ==
    /\ [](pc # "crashed")
    /\ [][task_status = "none" /\ status_log # <<>> =>
            task_status' = "none" /\ status_log' = status_log]_vars

\* C26: the price-limit check of a limit order submitted on bar N (N >= 2)
\* is made against the close of bar N-1: the previous close is updated only
\* after the orders of the bar are handled.
C26_CheckUsesPriorClose ==
    config.enable_price_limit =>
        \A i \in DOMAIN submits :
            submits[i].exectype # "Market" /\ submits[i].bar >= 2 =>
                submits[i].prev_close = submits[i].prior_close
====
